---- MODULE Spec2Model ----
(***************************************************************************)
(* Playlist loading and reconciliation of psst-gui (ui/playlist.rs):       *)
(* the four commands LOAD_LIST, LOAD_DETAIL, ADD_TRACK and REMOVE_TRACK,   *)
(* their request / preflight / response closures, the two promises they    *)
(* drive, and the pure function sort_playlist.                             *)
(***************************************************************************)
EXTENDS Integers, Sequences, FiniteSets, TLC

\* ------------------------------------------------------------------------
\* Bounds of the model
\* ------------------------------------------------------------------------
\* Number of catalogue tracks a fetched playlist is drawn from.
NumTracks == 4
\* Longest track sequence handed to sort_playlist.
MaxLen == 3
\* Number of playlists in the user's library.
NumPlaylists == 2
\* Number of commands the user submits.
MaxCmds == 2
\* Number of LOAD_DETAIL commands the user submits when submitting no other.
MaxDetails == 3
\* Number of times the user changes the sort preference.
MaxSortChanges == 1
\* Largest track count the server reports for a playlist.
MaxCount == 1

\* ------------------------------------------------------------------------
\* Data
\* ------------------------------------------------------------------------
\* Strings that are compared are sequences of character codes, so that
\* str::cmp is the byte-wise lexicographic order it is in the program.
Zeta == <<90, 101, 116, 97>>
Alpha == <<65, 108, 112, 104, 97>>
Mu == <<77, 117>>
alpha == <<97, 108, 112, 104, 97>>
Al == <<65, 108>>
Bob == <<66, 111, 98>>
Ann == <<65, 110, 110>>

\* The tracks the server can return.  Titles, artists, albums and durations
\* both differ and tie, so every comparator meets ties and strict pairs.
Catalogue ==
    << [id |-> 1, name |-> Zeta,  artist |-> Bob, album |-> Mu,    duration |-> 30],
       [id |-> 2, name |-> Alpha, artist |-> Al,  album |-> Zeta,  duration |-> 10],
       [id |-> 3, name |-> Mu,    artist |-> Al,  album |-> Mu,    duration |-> 20],
       [id |-> 4, name |-> Alpha, artist |-> Bob, album |-> Alpha, duration |-> 10],
       [id |-> 5, name |-> alpha, artist |-> Ann, album |-> Zeta,  duration |-> 20],
       [id |-> 6, name |-> Zeta,  artist |-> Ann, album |-> alpha, duration |-> 40] >>

Tracks == {Catalogue[i] : i \in 1..NumTracks}

TrackSeqs == UNION {[1..n -> Tracks] : n \in 0..MaxLen}

SortCriteria == {"Title", "Artist", "Album", "Duration", "DateAdded"}

SortOrder == {"Ascending", "Descending"}

\* AppState::config, as far as sort_playlist reads it.
Configs == [sort_criteria : SortCriteria, sort_order : SortOrder]

\* Result<Vector<Arc<Track>>, Error>
Ok(v) == [ok |-> TRUE, val |-> v, err |-> ""]

Err(e) == [ok |-> FALSE, val |-> <<>>, err |-> e]

\* ------------------------------------------------------------------------
\* sort_playlist
\* ------------------------------------------------------------------------
CmpInt(a, b) == IF a < b THEN "Less" ELSE IF a = b THEN "Equal" ELSE "Greater"

RECURSIVE CmpStr(_, _)
CmpStr(a, b) ==
    IF a = <<>> /\ b = <<>> THEN "Equal"
    ELSE IF a = <<>> THEN "Less"
    ELSE IF b = <<>> THEN "Greater"
    ELSE IF Head(a) < Head(b) THEN "Less"
    ELSE IF Head(a) > Head(b) THEN "Greater"
    ELSE CmpStr(Tail(a), Tail(b))

\* Ordering::reverse
OrdReverse(o) ==
    IF o = "Less" THEN "Greater" ELSE IF o = "Greater" THEN "Less" ELSE "Equal"

\* A faulty comparator: the reversal for Descending is forgotten.
CompareNoReverse(a, b, sort_criteria, sort_order) ==
    CASE sort_criteria = "Title"    -> CmpStr(a.name, b.name)
      [] sort_criteria = "Artist"   -> CmpStr(a.artist, b.artist)
      [] sort_criteria = "Album"    -> CmpStr(a.album, b.album)
      [] sort_criteria = "Duration" -> CmpInt(a.duration, b.duration)
      [] OTHER                      -> "Equal"

\* The comparator closure handed to sorted_by.
Compare(a, b, sort_criteria, sort_order) ==
    LET method ==
            CASE sort_criteria = "Title"    -> CmpStr(a.name, b.name)
              [] sort_criteria = "Artist"   -> CmpStr(a.artist, b.artist)
              [] sort_criteria = "Album"    -> CmpStr(a.album, b.album)
              [] sort_criteria = "Duration" -> CmpInt(a.duration, b.duration)
              [] OTHER                      -> "Equal"
    IN  IF sort_order = "Descending" THEN OrdReverse(method) ELSE method

\* A faulty insertion: x goes before the elements it ties with.
RECURSIVE InsertSortedUnstable(_, _, _, _)
InsertSortedUnstable(x, s, sort_criteria, sort_order) ==
    IF s = <<>> THEN <<x>>
    ELSE IF Compare(x, Head(s), sort_criteria, sort_order) # "Greater"
         THEN <<x>> \o s
         ELSE <<Head(s)>> \o InsertSortedUnstable(x, Tail(s), sort_criteria, sort_order)

\* x, which follows every element of the sorted s in the input, goes
\* before the first element it is strictly less than.
RECURSIVE InsertSorted(_, _, _, _)
InsertSorted(x, s, sort_criteria, sort_order) ==
    IF s = <<>> THEN <<x>>
    ELSE IF Compare(x, Head(s), sort_criteria, sort_order) = "Less"
         THEN <<x>> \o s
         ELSE <<Head(s)>> \o InsertSorted(x, Tail(s), sort_criteria, sort_order)

\* Itertools::sorted_by: a stable sort by the comparator.
RECURSIVE SortedBy(_, _, _)
SortedBy(s, sort_criteria, sort_order) ==
    IF s = <<>> THEN <<>>
    ELSE InsertSorted(s[Len(s)],
                      SortedBy(SubSeq(s, 1, Len(s) - 1), sort_criteria, sort_order),
                      sort_criteria, sort_order)

\* into_iter().rev().collect()
Rev(s) == [i \in 1..Len(s) |-> s[Len(s) + 1 - i]]

\* A faulty sort_playlist: `||` for `&&` in the test for the reversal.
sort_playlistReverseEither(data, result) ==
    LET sort_criteria == data.sort_criteria
        sort_order == data.sort_order
        playlist == IF result.ok THEN result.val ELSE <<>>
        sorted_playlist == SortedBy(playlist, sort_criteria, sort_order)
    IN  Ok(IF sort_criteria = "DateAdded" \/ sort_order = "Descending"
           THEN Rev(sorted_playlist)
           ELSE sorted_playlist)

\* A faulty sort_playlist: the reversal is made for every criterion when the
\* order is Descending.
sort_playlistReverseDescending(data, result) ==
    LET sort_criteria == data.sort_criteria
        sort_order == data.sort_order
        playlist == IF result.ok THEN result.val ELSE <<>>
        sorted_playlist == SortedBy(playlist, sort_criteria, sort_order)
    IN  Ok(IF sort_order = "Descending"
           THEN Rev(sorted_playlist)
           ELSE sorted_playlist)

sort_playlist(data, result) ==
    LET sort_criteria == data.sort_criteria
        sort_order == data.sort_order
        playlist == IF result.ok THEN result.val ELSE <<>>
        sorted_playlist == SortedBy(playlist, sort_criteria, sort_order)
    IN  Ok(IF sort_criteria = "DateAdded" /\ sort_order = "Descending"
           THEN Rev(sorted_playlist)
           ELSE sorted_playlist)

\* ------------------------------------------------------------------------
\* State
\* ------------------------------------------------------------------------
VARIABLES
    config,       \* AppState::config: the user's current sort preference
    playlists,    \* AppState::library.playlists: promise of the playlist list
    detail,       \* AppState::playlist_detail.tracks: promise of PlaylistTracks
    alerts,       \* AppState::alerts: notifications raised so far
    running,      \* payloads of the submissions whose response is still to come
    hist,         \* history: one record per submission, in submission order
    cmdsLeft,     \* number of commands the user still submits
    sortChanges,  \* history: number of changes of the sort preference
    sortIn,       \* sort_playlist on its own: the fetch result handed to it
    sortCfg,      \* sort_playlist on its own: the configuration it reads
    sortOut,      \* sort_playlist on its own: what it returned
    sortAgain,    \* sort_playlist on its own: what it returned for sortOut
    sortPc        \* sort_playlist on its own: "start", "sorted", "resorted"

appVars == <<config, playlists, detail, alerts, running, hist, cmdsLeft, sortChanges>>

sortVars == <<sortIn, sortCfg, sortOut, sortAgain, sortPc>>

vars == <<config, playlists, detail, alerts, running, hist, cmdsLeft, sortChanges,
          sortIn, sortCfg, sortOut, sortAgain, sortPc>>

LOAD_LIST == "app.playlist.load-list"

LOAD_DETAIL == "app.playlist.load-detail"

ADD_TRACK == "app.playlist.add-track"

REMOVE_TRACK == "app.playlist.remove-track"

\* PlaylistLink { id, name }
PlaylistName(i) == <<80, 48 + i>>

Link(i) == [id |-> i, name |-> PlaylistName(i)]

Links == {Link(i) : i \in 1..NumPlaylists}

NoLink == [id |-> 0, name |-> <<>>]

\* The configuration before the user has chosen one; also the placeholder
\* in payloads that carry no AppState.
NoConfig == [sort_criteria |-> "DateAdded", sort_order |-> "Ascending"]

\* The preferences the user moves between while commands are in flight.
Preferences == {NoConfig} \cup {c \in Configs : c.sort_criteria = "Title"}

\* PlaylistTracks { id, name, tracks }
NoPlaylistTracks == [id |-> 0, name |-> <<>>, tracks |-> <<>>]

\* ------------------------------------------------------------------------
\* Promise
\* ------------------------------------------------------------------------
\* The key of the playlist-list promise: LOAD_LIST carries no payload.
Unit == "()"

\* Promise::Empty; val holds the resolved Result, if any.
EmptyPromise(key) == [state |-> "Empty", key |-> key, val |-> <<>>]

\* Promise::defer: Pending(key); the previous value is gone for observers.
Defer(p, key) == [state |-> "Pending", key |-> key, val |-> <<>>]

\* Promise::update: accepted only for the key that is pending.
Update(p, key, result) ==
    IF p.state = "Pending" /\ p.key = key
    THEN [state |-> "Resolved", key |-> key, val |-> <<result>>]
    ELSE p

IsResolvedOk(p) == p.state = "Resolved" /\ p.val[1].ok

\* ------------------------------------------------------------------------
\* Library
\* ------------------------------------------------------------------------
\* Library::increment_playlist_track_count / decrement_playlist_track_count:
\* the count of the playlist with the link's id, in the list that is loaded.
AdjustTrackCount(p, link, delta) ==
    IF IsResolvedOk(p)
    THEN [p EXCEPT !.val[1].val =
            [i \in DOMAIN @ |->
                IF @[i].id = link.id
                THEN [@[i] EXCEPT !.track_count =
                        IF @ + delta < 0 THEN 0 ELSE @ + delta]
                ELSE @[i]]]
    ELSE p

\* The track count the loaded list shows for the playlist of link; -1 when
\* no list is loaded.
TrackCount(p, link) ==
    IF IsResolvedOk(p)
    THEN LET l == p.val[1].val
         IN  l[CHOOSE i \in DOMAIN l : l[i].id = link.id].track_count
    ELSE -1

increment_playlist_track_count(p, link) == AdjustTrackCount(p, link, 1)

decrement_playlist_track_count(p, link) == AdjustTrackCount(p, link, 0 - 1)

\* ------------------------------------------------------------------------
\* WebApi: what the fetch collaborator can answer
\* ------------------------------------------------------------------------
TransportError == "WebApiError: transport"

NoUriError == "WebApiError: Item doesn't have URI"

\* get_playlists
PlaylistLists ==
    {[i \in 1..NumPlaylists |->
        [id |-> i, name |-> PlaylistName(i), track_count |-> c[i]]] :
        c \in [1..NumPlaylists -> 1..MaxCount]}

GetPlaylistsResults == {Ok(l) : l \in PlaylistLists} \cup {Err(TransportError)}

\* get_playlist_tracks: the playlist in fetch order, or a failure.
GetPlaylistTracksResults ==
    {Ok([i \in 1..MaxLen |-> Catalogue[i]]), Err(TransportError)}

\* add_track_to_playlist, remove_track_from_playlist
EditResults == {Ok(<<>>), Err(TransportError)}

\* ------------------------------------------------------------------------
\* The closures of the four on_command_async registrations
\* ------------------------------------------------------------------------
\* A Result nothing has produced yet.
NoResult == Err("")

\* The payload of a submission; id tells two equal payloads apart.
Payload(sel, link, hasUri, cfg) ==
    [id |-> Len(hist) + 1, sel |-> sel, link |-> link, hasUri |-> hasUri, cfg |-> cfg]

\* LOAD_LIST
LoadListPreflight(p, d) == Defer(p, d)

\* A faulty response: only a successful fetch is handed to the promise.
LoadListResponseOkOnly(p, d, r) == IF r.ok THEN Update(p, d, r) ELSE p

LoadListResponse(p, d, r) == Update(p, d, r)

\* LOAD_DETAIL: arg is (PlaylistLink, AppState)
\* A faulty request: the preference is read when the fetch returns, not
\* from the snapshot in the payload.
LoadDetailRequestCurrent(arg, fetched) == sort_playlist(config, fetched)

LoadDetailRequest(arg, fetched) == sort_playlist(arg.cfg, fetched)

\* A faulty preflight: a promise that is already pending is left alone.
LoadDetailPreflightIfIdle(p, d) ==
    IF p.state = "Pending" THEN p ELSE Defer(p, d.link)

LoadDetailPreflight(p, d) == Defer(p, d.link)

\* A faulty response: the key of the update is the promise's own.
LoadDetailResponseOwnKey(p, d, r) ==
    Update(p, p.key,
           IF r.ok
           THEN Ok([id |-> d.link.id, name |-> d.link.name, tracks |-> r.val])
           ELSE [ok |-> FALSE, val |-> NoPlaylistTracks, err |-> r.err])

LoadDetailResponse(p, d, r) ==
    Update(p, d.link,
           IF r.ok
           THEN Ok([id |-> d.link.id, name |-> d.link.name, tracks |-> r.val])
           ELSE [ok |-> FALSE, val |-> NoPlaylistTracks, err |-> r.err])

\* ADD_TRACK and REMOVE_TRACK: `to_uri().ok_or_else(..)?` returns before
\* the collaborator is called.  CallsApi tells whether the call is made,
\* EditRequest what the closure returns when the call, if made, answers api.
CallsApi(d) == d.hasUri

\* A faulty request: the missing URI is not noticed.
EditRequestUnchecked(d, api) == api

EditRequest(d, api) == IF d.hasUri THEN api ELSE Err(NoUriError)

\* A faulty preflight: the count is taken down as REMOVE_TRACK does.
AddTrackPreflightDecrement(p, d) == decrement_playlist_track_count(p, d.link)

AddTrackPreflight(p, d) == increment_playlist_track_count(p, d.link)

\* A faulty response: the result is not looked at.
AddTrackResponseAlwaysInfo(as, r) ==
    Append(as, [style |-> "info", message |-> "Added to playlist."])

AddTrackResponse(as, r) ==
    IF ~r.ok
    THEN Append(as, [style |-> "error", message |-> r.err])
    ELSE Append(as, [style |-> "info", message |-> "Added to playlist."])

RemoveTrackPreflight(p, d) == decrement_playlist_track_count(p, d.link)

\* A faulty response: the error is dropped and nothing is shown.
RemoveTrackResponseQuiet(as, r) ==
    IF ~r.ok
    THEN as
    ELSE Append(as, [style |-> "info", message |-> "Removed from playlist."])

RemoveTrackResponse(as, r) ==
    IF ~r.ok
    THEN Append(as, [style |-> "error", message |-> r.err])
    ELSE Append(as, [style |-> "info", message |-> "Removed from playlist."])

\* A faulty response: LOAD_DETAIL is submitted on success only.
RemoveTrackResubmitsOnSuccess(p, r, data) ==
    IF r.ok THEN << [sel |-> LOAD_DETAIL, link |-> p.link, cfg |-> data] >> ELSE <<>>

\* The commands the REMOVE_TRACK response submits: LOAD_DETAIL with
\* (p.link, data.clone()), whatever r is.
RemoveTrackResubmits(p, r, data) ==
    << [sel |-> LOAD_DETAIL, link |-> p.link, cfg |-> data] >>

\* ------------------------------------------------------------------------
\* History
\* ------------------------------------------------------------------------
\* parent is the id of the REMOVE_TRACK whose response submitted the
\* command, 0 when the user did; count is the track count the library
\* showed for the playlist when ADD_TRACK or REMOVE_TRACK was submitted;
\* held tells whether the library held playlists when the command was
\* submitted.
Submitted(d, parent) ==
    [sel |-> d.sel, link |-> d.link, hasUri |-> d.hasUri, cfg |-> d.cfg,
     parent |-> parent,
     count |-> IF d.sel \in {ADD_TRACK, REMOVE_TRACK}
               THEN TrackCount(playlists, d.link) ELSE -1,
     held |-> IsResolvedOk(playlists),
     done |-> FALSE, called |-> FALSE,
     fetchOk |-> FALSE, resOk |-> FALSE, fate |-> "none"]

\* What became of a response handed to Promise::update: "accepted" when it
\* changed the promise p into q, "superseded" when p was pending on another
\* key, "spent" when p was not pending.
Fate(p, q) ==
    IF q # p THEN "accepted" ELSE IF p.state = "Pending" THEN "superseded" ELSE "spent"

\* called: the collaborator was invoked; fetched: what it answered;
\* res: what the request closure returned.
Completed(h, d, called, fetched, res, fate) ==
    [h EXCEPT ![d.id] = [@ EXCEPT !.done = TRUE, !.called = called,
                                  !.fetchOk = called /\ fetched.ok,
                                  !.resOk = res.ok,
                                  !.fate = fate]]

\* ------------------------------------------------------------------------
\* Actions
\* ------------------------------------------------------------------------
Init ==
    /\ config = NoConfig
    /\ playlists = EmptyPromise(Unit)
    /\ detail = EmptyPromise(NoLink)
    /\ alerts = <<>>
    /\ running = {}
    /\ hist = <<>>
    /\ cmdsLeft = MaxCmds
    /\ sortChanges = 0
    /\ sortIn = NoResult
    /\ sortCfg = NoConfig
    /\ sortOut = NoResult
    /\ sortAgain = NoResult
    /\ sortPc = "idle"

\* The user picks another sort preference.
SetSort ==
    /\ sortChanges < MaxSortChanges
    /\ \E c \in Preferences \ {config} : config' = c
    /\ sortChanges' = sortChanges + 1
    /\ UNCHANGED <<playlists, detail, alerts, running, hist, cmdsLeft, sortVars>>

SubmitLoadList ==
    /\ cmdsLeft > 0
    /\ cmdsLeft' = cmdsLeft - 1
    /\ LET d == Payload(LOAD_LIST, NoLink, TRUE, NoConfig)
       IN  /\ playlists' = LoadListPreflight(playlists, Unit)
           /\ running' = running \cup {d}
           /\ hist' = Append(hist, Submitted(d, 0))
    /\ UNCHANGED <<config, detail, alerts, sortChanges, sortVars>>

CompleteLoadList ==
    /\ \E d \in running, r \in GetPlaylistsResults :
        /\ d.sel = LOAD_LIST
        /\ playlists' = LoadListResponse(playlists, Unit, r)
        /\ running' = running \ {d}
        /\ hist' = Completed(hist, d, TRUE, r, r, Fate(playlists, playlists'))
    /\ UNCHANGED <<config, detail, alerts, cmdsLeft, sortChanges, sortVars>>

SubmitLoadDetail ==
    /\ cmdsLeft > 0
    /\ cmdsLeft' = cmdsLeft - 1
    /\ \E link \in Links :
        LET d == Payload(LOAD_DETAIL, link, TRUE, config)
        IN  /\ detail' = LoadDetailPreflight(detail, d)
            /\ running' = running \cup {d}
            /\ hist' = Append(hist, Submitted(d, 0))
    /\ UNCHANGED <<config, playlists, alerts, sortChanges, sortVars>>

CompleteLoadDetail ==
    /\ \E d \in running, fetched \in GetPlaylistTracksResults :
        /\ d.sel = LOAD_DETAIL
        /\ LET r == LoadDetailRequest(d, fetched)
           IN  /\ detail' = LoadDetailResponse(detail, d, r)
               /\ running' = running \ {d}
               /\ hist' = Completed(hist, d, TRUE, fetched, r, Fate(detail, detail'))
    /\ UNCHANGED <<config, playlists, alerts, cmdsLeft, sortChanges, sortVars>>

SubmitAddTrack ==
    /\ cmdsLeft > 0
    /\ cmdsLeft' = cmdsLeft - 1
    /\ \E link \in Links, hasUri \in BOOLEAN :
        LET d == Payload(ADD_TRACK, link, hasUri, NoConfig)
        IN  /\ playlists' = AddTrackPreflight(playlists, d)
            /\ running' = running \cup {d}
            /\ hist' = Append(hist, Submitted(d, 0))
    /\ UNCHANGED <<config, detail, alerts, sortChanges, sortVars>>

\* A faulty response of ADD_TRACK: it also empties the detail promise.
CompleteAddTrackResetsDetail ==
    /\ \E d \in running, api \in EditResults :
        /\ d.sel = ADD_TRACK
        /\ LET r == EditRequest(d, api)
           IN  /\ alerts' = AddTrackResponse(alerts, r)
               /\ detail' = EmptyPromise(NoLink)
               /\ running' = running \ {d}
               /\ hist' = Completed(hist, d, CallsApi(d),
                                    IF CallsApi(d) THEN api ELSE NoResult, r, "none")
    /\ UNCHANGED <<config, playlists, cmdsLeft, sortChanges, sortVars>>

CompleteAddTrack ==
    /\ \E d \in running, api \in EditResults :
        /\ d.sel = ADD_TRACK
        /\ LET r == EditRequest(d, api)
           IN  /\ alerts' = AddTrackResponse(alerts, r)
               /\ running' = running \ {d}
               /\ hist' = Completed(hist, d, CallsApi(d),
                                    IF CallsApi(d) THEN api ELSE NoResult, r, "none")
    /\ UNCHANGED <<config, playlists, detail, cmdsLeft, sortChanges, sortVars>>

SubmitRemoveTrack ==
    /\ cmdsLeft > 0
    /\ cmdsLeft' = cmdsLeft - 1
    /\ \E link \in Links, hasUri \in BOOLEAN :
        LET d == Payload(REMOVE_TRACK, link, hasUri, NoConfig)
        IN  /\ playlists' = RemoveTrackPreflight(playlists, d)
            /\ running' = running \cup {d}
            /\ hist' = Append(hist, Submitted(d, 0))
    /\ UNCHANGED <<config, detail, alerts, sortChanges, sortVars>>

\* Submitting the commands cs one after the other: the preflight of each
\* runs and its request is started.  Returns <<detail, running, hist>>.
RECURSIVE SubmitAll(_, _, _, _, _)
SubmitAll(cs, parent, dt, rn, hs) ==
    IF cs = <<>> THEN <<dt, rn, hs>>
    ELSE LET c == Head(cs)
             d == [id |-> Len(hs) + 1, sel |-> c.sel, link |-> c.link,
                   hasUri |-> TRUE, cfg |-> c.cfg]
         IN  SubmitAll(Tail(cs), parent, LoadDetailPreflight(dt, d),
                       rn \cup {d}, Append(hs, Submitted(d, parent)))

CompleteRemoveTrack ==
    /\ \E d \in running, api \in EditResults :
        /\ d.sel = REMOVE_TRACK
        /\ LET r == EditRequest(d, api)
               after == SubmitAll(RemoveTrackResubmits(d, r, config), d.id, detail,
                                  running \ {d},
                                  Completed(hist, d, CallsApi(d),
                                            IF CallsApi(d) THEN api ELSE NoResult,
                                            r, "none"))
           IN  /\ alerts' = RemoveTrackResponse(alerts, r)
               /\ detail' = after[1]
               /\ running' = after[2]
               /\ hist' = after[3]
    /\ UNCHANGED <<config, playlists, cmdsLeft, sortChanges, sortVars>>

Next ==
    \/ SetSort
    \/ SubmitLoadList
    \/ CompleteLoadList
    \/ SubmitLoadDetail
    \/ CompleteLoadDetail
    \/ SubmitAddTrack
    \/ CompleteAddTrack
    \/ SubmitRemoveTrack
    \/ CompleteRemoveTrack

Spec == Init /\ [][Next]_vars

\* The four commands under one sort preference.
CommandNext ==
    \/ SubmitLoadList
    \/ CompleteLoadList
    \/ SubmitLoadDetail
    \/ CompleteLoadDetail
    \/ SubmitAddTrack
    \/ CompleteAddTrack
    \/ SubmitRemoveTrack
    \/ CompleteRemoveTrack

CommandSpec == Init /\ [][CommandNext]_vars

\* LOAD_DETAIL alone, while the user changes the sort preference.
DetailInit ==
    /\ config = NoConfig
    /\ playlists = EmptyPromise(Unit)
    /\ detail = EmptyPromise(NoLink)
    /\ alerts = <<>>
    /\ running = {}
    /\ hist = <<>>
    /\ cmdsLeft = MaxDetails
    /\ sortChanges = 0
    /\ sortIn = NoResult
    /\ sortCfg = NoConfig
    /\ sortOut = NoResult
    /\ sortAgain = NoResult
    /\ sortPc = "idle"

DetailNext ==
    \/ SetSort
    \/ SubmitLoadDetail
    \/ CompleteLoadDetail

DetailSpec == DetailInit /\ [][DetailNext]_vars

\* ------------------------------------------------------------------------
\* sort_playlist on its own
\* ------------------------------------------------------------------------
SortInit ==
    /\ config = NoConfig
    /\ playlists = EmptyPromise(Unit)
    /\ detail = EmptyPromise(NoLink)
    /\ alerts = <<>>
    /\ running = {}
    /\ hist = <<>>
    /\ cmdsLeft = 0
    /\ sortChanges = 0
    /\ sortIn \in {Ok(s) : s \in TrackSeqs} \cup {Err(TransportError)}
    /\ sortCfg \in Configs
    /\ sortOut = NoResult
    /\ sortAgain = NoResult
    /\ sortPc = "start"

SortOnce ==
    /\ sortPc = "start"
    /\ sortOut' = sort_playlist(sortCfg, sortIn)
    /\ sortPc' = "sorted"
    /\ UNCHANGED <<sortIn, sortCfg, sortAgain, appVars>>

\* sort_playlist applied to its own output.
SortTwice ==
    /\ sortPc = "sorted"
    /\ sortAgain' = sort_playlist(sortCfg, sortOut)
    /\ sortPc' = "resorted"
    /\ UNCHANGED <<sortIn, sortCfg, sortOut, appVars>>

SortNext == SortOnce \/ SortTwice

SortSpec == SortInit /\ [][SortNext]_vars

\* ------------------------------------------------------------------------
\* Properties of sort_playlist (SortSpec)
\* ------------------------------------------------------------------------
Sorted == sortPc \in {"sorted", "resorted"}

\* The tracks sort_playlist works on.
InputTracks == IF sortIn.ok THEN sortIn.val ELSE <<>>

DateAddedDescending ==
    sortCfg.sort_criteria = "DateAdded" /\ sortCfg.sort_order = "Descending"

\* The order of two tracks by the field a criterion selects; no two tracks
\* are told apart by DateAdded.
KeyOrd(a, b, criteria) ==
    CASE criteria = "Title"    -> CmpStr(a.name, b.name)
      [] criteria = "Artist"   -> CmpStr(a.artist, b.artist)
      [] criteria = "Album"    -> CmpStr(a.album, b.album)
      [] criteria = "Duration" -> CmpInt(a.duration, b.duration)
      [] criteria = "DateAdded" -> "Equal"

Occurrences(s, t) == Cardinality({i \in DOMAIN s : s[i] = t})

IsPermutation(s, t) ==
    /\ Len(s) = Len(t)
    /\ \A x \in Tracks : Occurrences(s, x) = Occurrences(t, x)

\* The tracks of s that tie with t, in the order they have in s.
Ties(s, t, criteria) == SelectSeq(s, LAMBDA u : KeyOrd(u, t, criteria) = "Equal")

KeepsTies(in, out, criteria) ==
    \A t \in Tracks : Ties(out, t, criteria) = Ties(in, t, criteria)

\* C4 as stated: sorting is idempotent for every sequence, criterion and
\* order: sort_playlist applied to its own output returns that output.
C4_Idempotent == sortPc = "resorted" => sortAgain = sortOut

\* C4 amended: sorting is idempotent for every sequence and every criterion
\* and order other than DateAdded with Descending; for DateAdded with
\* Descending, sort_playlist applied to its own output returns the input.
C4_IdempotentButDateAddedDescending ==
    sortPc = "resorted" =>
        IF DateAddedDescending
        THEN sortAgain.ok /\ sortAgain.val = InputTracks
        ELSE sortAgain = sortOut

\* C4: a sort by title that moved tracks and met a tie has been applied to
\* its own output.
C4_Witness ==
    /\ sortPc = "resorted"
    /\ sortCfg.sort_criteria = "Title"
    /\ sortOut.val # InputTracks
    /\ \E i, j \in DOMAIN sortOut.val :
        i # j /\ KeyOrd(sortOut.val[i], sortOut.val[j], "Title") = "Equal"

\* C6 as stated: the sort is stable under every criterion and every order:
\* tracks that tie under the criterion (all tracks, for DateAdded) keep the
\* relative order of the input.
C6_Stable == Sorted => KeepsTies(InputTracks, sortOut.val, sortCfg.sort_criteria)

\* C6 amended: the sort is stable under every criterion and order other
\* than DateAdded with Descending: tracks that tie keep the relative order
\* of the input; for DateAdded with Descending the output is the input
\* reversed, so every pair of tracks changes its relative order.
C6_StableButDateAddedDescending ==
    Sorted =>
        IF DateAddedDescending
        THEN sortOut.val = Rev(InputTracks)
        ELSE KeepsTies(InputTracks, sortOut.val, sortCfg.sort_criteria)

\* C6: two tracks of the same title, apart in the input, have been sorted
\* by title, descending, with a third track moving in front of them.
C6_Witness ==
    /\ sortPc = "sorted"
    /\ sortCfg = [sort_criteria |-> "Title", sort_order |-> "Descending"]
    /\ sortIn = Ok(<<Catalogue[4], Catalogue[1], Catalogue[2]>>)
    /\ sortOut = Ok(<<Catalogue[1], Catalogue[4], Catalogue[2]>>)

\* C7: for Title, Artist, Album and Duration the output is a permutation of
\* the input whose selected keys are non-decreasing for Ascending and
\* non-increasing for Descending.
C7_SortedPermutation ==
    (Sorted /\ sortCfg.sort_criteria # "DateAdded") =>
        /\ sortOut.ok
        /\ IsPermutation(InputTracks, sortOut.val)
        /\ \A i \in 1..(Len(sortOut.val) - 1) :
            KeyOrd(sortOut.val[i], sortOut.val[i + 1], sortCfg.sort_criteria)
                # (IF sortCfg.sort_order = "Ascending" THEN "Greater" ELSE "Less")

\* C7: durations [30, 10, 20] have been sorted descending to [30, 20, 10].
C7_Witness ==
    /\ sortPc = "sorted"
    /\ sortCfg = [sort_criteria |-> "Duration", sort_order |-> "Descending"]
    /\ sortIn = Ok(<<Catalogue[1], Catalogue[2], Catalogue[3]>>)
    /\ sortOut = Ok(<<Catalogue[1], Catalogue[3], Catalogue[2]>>)

\* ------------------------------------------------------------------------
\* Properties of LOAD_DETAIL (DetailSpec)
\* ------------------------------------------------------------------------
\* The LOAD_DETAIL submissions whose response arrives in this step.
DetailResponses == {d \in running \ running' : d.sel = LOAD_DETAIL}

IsLoadDetail(i) == hist[i].sel = LOAD_DETAIL

\* C1: when the detail promise is Pending(k2), the late response of a
\* LOAD_DETAIL for another key k1 leaves the promise (state, key and value)
\* as it was, and only the response of a LOAD_DETAIL for k2 moves the
\* promise out of Pending(k2).
C1_StaleUpdateIsNoOp ==
    [][/\ \A d \in DetailResponses :
            (detail.state = "Pending" /\ d.link # detail.key) => detail' = detail
       /\ (detail.state = "Pending" /\ detail'.state # "Pending") =>
            \E d \in DetailResponses : d.link = detail.key]_vars

\* C1: defer(k1), update(k1, r1), defer(k2) and a late update(k1, r) have
\* happened: one LOAD_DETAIL for k1 was accepted, another one for k1 came
\* back while the promise was pending on k2 and was dropped, and the
\* promise is still Pending(k2).
C1_Witness ==
    \E a, b, c \in DOMAIN hist :
        /\ IsLoadDetail(a) /\ IsLoadDetail(b) /\ IsLoadDetail(c)
        /\ hist[a].link = hist[b].link
        /\ hist[c].link # hist[a].link
        /\ hist[a].fate = "accepted"
        /\ hist[b].fate = "superseded"
        /\ ~hist[c].done
        /\ detail = [state |-> "Pending", key |-> hist[c].link, val |-> <<>>]

\* The values a LOAD_DETAIL for link under the preference cfg can resolve to.
ResolvableTo(link, cfg) ==
    {Ok([id |-> link.id, name |-> link.name, tracks |-> sort_playlist(cfg, f).val]) :
        f \in GetPlaylistTracksResults}

\* C2 as stated: when LOAD_DETAIL was submitted twice for one playlist, the
\* second time under another sort preference, and both responses have
\* arrived, the promise holds the result of the second: its tracks are
\* ordered by the second submission's preference.
C2_LatestPreferenceWins ==
    \A i, j \in DOMAIN hist :
        (/\ i < j
         /\ IsLoadDetail(i) /\ IsLoadDetail(j)
         /\ hist[i].link = hist[j].link
         /\ hist[i].cfg # hist[j].cfg
         /\ hist[i].done /\ hist[j].done
         /\ \A k \in DOMAIN hist : k > j => ~IsLoadDetail(k))
        => /\ hist[j].fate = "accepted"
           /\ detail.state = "Resolved"
           /\ detail.val[1] \in ResolvableTo(hist[j].link, hist[j].cfg)

\* C5 as stated: when the track fetch of a LOAD_DETAIL fails and its
\* response is accepted, the promise is Resolved with the error.
C5_FetchErrorKept ==
    [][\A d \in DetailResponses :
            (hist'[d.id].fate = "accepted" /\ ~hist'[d.id].fetchOk)
            => (detail'.state = "Resolved" /\ ~detail'.val[1].ok)]_vars

\* ------------------------------------------------------------------------
\* Properties of the four commands (CommandSpec)
\* ------------------------------------------------------------------------
IsLoadList(i) == hist[i].sel = LOAD_LIST

IsRemoveTrack(i) == hist[i].sel = REMOVE_TRACK

IsEdit(i) == hist[i].sel \in {ADD_TRACK, REMOVE_TRACK}

\* The commands the response of submission i submitted.
Children(i) == {k \in DOMAIN hist : hist[k].parent = i}

\* C3 as stated: when LOAD_LIST was submitted twice and both responses have
\* arrived, the library promise is Resolved with the result of the later
\* submission, never with that of the earlier one.
C3_LatestLoadListWins ==
    \A i, j \in DOMAIN hist :
        (/\ i < j
         /\ IsLoadList(i) /\ IsLoadList(j)
         /\ hist[i].done /\ hist[j].done
         /\ \A k \in DOMAIN hist : k > j => ~IsLoadList(k))
        => /\ hist[j].fate = "accepted"
           /\ playlists.state = "Resolved"
           /\ playlists.val[1].ok = hist[j].resOk

\* C8: every REMOVE_TRACK whose response has arrived, whether the server
\* call succeeded, failed or was never made for want of a URI, has
\* submitted exactly one command, a LOAD_DETAIL for the playlist of its
\* payload; before its response it has submitted none, and no other
\* command submits any.
C8_RemoveResubmitsOnce ==
    \A i \in DOMAIN hist :
        IF IsRemoveTrack(i) /\ hist[i].done
        THEN /\ Cardinality(Children(i)) = 1
             /\ \A k \in Children(i) :
                    IsLoadDetail(k) /\ hist[k].link = hist[i].link
        ELSE Children(i) = {}

\* C8: a REMOVE_TRACK whose server call failed and one that was never sent
\* for want of a URI have both completed.
C8_Witness ==
    \E i, j \in DOMAIN hist :
        /\ IsRemoveTrack(i) /\ hist[i].done /\ hist[i].called /\ ~hist[i].resOk
        /\ IsRemoveTrack(j) /\ hist[j].done /\ ~hist[j].called
        /\ Children(i) # {} /\ Children(j) # {}

\* C9 as stated: after a REMOVE_TRACK whose server call failed, once the
\* LOAD_DETAIL it submitted has resolved, and no other command on the
\* library came after it, the library shows the track count it showed
\* before the REMOVE_TRACK was submitted.
C9_FailedRemoveCountRestored ==
    \A i \in DOMAIN hist :
        (/\ IsRemoveTrack(i) /\ hist[i].done
         /\ hist[i].called /\ ~hist[i].resOk
         /\ hist[i].count >= 0
         /\ \A k \in DOMAIN hist : k > i => IsLoadDetail(k)
         /\ \A k \in Children(i) : hist[k].fate = "accepted")
        => TrackCount(playlists, hist[i].link) = hist[i].count

\* C10: an ADD_TRACK or REMOVE_TRACK for a track without URI never calls
\* the collaborator, its request returns an error, and the response raises
\* the error alert a failed call raises: there is one alert with the
\* validation error for each such command that has completed, and one with
\* the transport error for each completed command whose call failed.
C10_NoUriNoCall ==
    /\ \A i \in DOMAIN hist :
        (IsEdit(i) /\ hist[i].done /\ ~hist[i].hasUri)
            => (~hist[i].called /\ ~hist[i].resOk)
    /\ Cardinality({a \in DOMAIN alerts :
                        alerts[a] = [style |-> "error", message |-> NoUriError]})
        = Cardinality({i \in DOMAIN hist :
                        IsEdit(i) /\ hist[i].done /\ ~hist[i].hasUri})
    /\ Cardinality({a \in DOMAIN alerts :
                        alerts[a] = [style |-> "error", message |-> TransportError]})
        = Cardinality({i \in DOMAIN hist :
                        IsEdit(i) /\ hist[i].done /\ hist[i].called /\ ~hist[i].resOk})

\* C10: an ADD_TRACK and a REMOVE_TRACK for tracks without URI have both
\* completed.
C10_Witness ==
    \E i, j \in DOMAIN hist :
        /\ hist[i].sel = ADD_TRACK /\ hist[i].done /\ ~hist[i].hasUri
        /\ hist[j].sel = REMOVE_TRACK /\ hist[j].done /\ ~hist[j].hasUri

\* The responses that arrive in a step, and what a request returned.
Responses == running \ running'

ErrorOf(d) == IF d.hasUri THEN TransportError ELSE NoUriError

\* C11 as stated: every response of LOAD_LIST, LOAD_DETAIL, ADD_TRACK or
\* REMOVE_TRACK whose request returned an error raises one error alert.
C11_EveryErrorAlerted ==
    [][\A d \in Responses :
           ~hist'[d.id].resOk
               => /\ Len(alerts') = Len(alerts) + 1
                  /\ alerts'[Len(alerts')].style = "error"]_vars

\* C11: the response of an ADD_TRACK or REMOVE_TRACK whose request returned
\* an error raises exactly one error alert, carrying that error; the
\* responses of LOAD_LIST and LOAD_DETAIL raise no alert, whatever the
\* request returned: a failed LOAD_LIST is kept in the library promise only.
C11_EditErrorsAlerted ==
    [][\A d \in Responses :
           IF d.sel \in {ADD_TRACK, REMOVE_TRACK}
           THEN ~hist'[d.id].resOk
                    => alerts' = Append(alerts, [style |-> "error",
                                                 message |-> ErrorOf(d)])
           ELSE alerts' = alerts]_vars

\* C11: a LOAD_LIST whose fetch failed and a REMOVE_TRACK whose call failed
\* have both completed, and one alert has been raised.
C11_Witness ==
    \E i, j \in DOMAIN hist :
        /\ IsLoadList(i) /\ hist[i].done /\ ~hist[i].resOk
        /\ IsRemoveTrack(j) /\ hist[j].done /\ ~hist[j].resOk
        /\ Len(alerts) = 1
        /\ alerts[1].style = "error"

IsAddTrack(i) == hist[i].sel = ADD_TRACK

\* The commands submitted in a step.
NewSubmissions == DOMAIN hist' \ DOMAIN hist

\* C12: an ADD_TRACK on a playlist, submitted while the library promise
\* holds the playlists, whose request succeeded, and after which no
\* LOAD_LIST, ADD_TRACK or REMOVE_TRACK was submitted, leaves that
\* playlist's track count exactly one above what it was when the command
\* was submitted; submitting the command leaves the count of every other
\* playlist as it was, and its response leaves the library untouched.
C12_AddTrackCountsOne ==
    /\ [](\A i \in DOMAIN hist :
            (/\ IsAddTrack(i) /\ hist[i].done /\ hist[i].resOk
             /\ hist[i].count >= 0
             /\ \A k \in DOMAIN hist : k > i => IsLoadDetail(k))
            => TrackCount(playlists, hist[i].link) = hist[i].count + 1)
    /\ [][/\ \A k \in NewSubmissions :
                hist'[k].sel = ADD_TRACK
                    => \A l \in Links \ {hist'[k].link} :
                           TrackCount(playlists', l) = TrackCount(playlists, l)
          /\ \A d \in Responses :
                d.sel = ADD_TRACK => playlists' = playlists]_vars

\* C12: an ADD_TRACK on the second playlist has succeeded while the library
\* held both playlists, and the count of the second playlist is one higher.
C12_Witness ==
    \E i \in DOMAIN hist :
        /\ IsAddTrack(i) /\ hist[i].done /\ hist[i].resOk
        /\ hist[i].link = Link(2)
        /\ hist[i].count >= 0
        /\ TrackCount(playlists, Link(1)) >= 0
        /\ TrackCount(playlists, Link(2)) = hist[i].count + 1

\* The playlists a promise holds, in whatever state it is.
StoredPlaylists(p) == IF p.val = <<>> THEN <<>> ELSE p.val[1].val

LastLoadList(j) == IsLoadList(j) /\ \A k \in DOMAIN hist : k > j => ~IsLoadList(k)

FetchOrder == [i \in 1..MaxLen |-> Catalogue[i]]

\* s holds the tracks of fetched in the order the preference cfg asks for.
OrderedBy(s, fetched, cfg) ==
    /\ IsPermutation(s, fetched)
    /\ IF cfg.sort_criteria = "DateAdded"
       THEN s = IF cfg.sort_order = "Ascending" THEN fetched ELSE Rev(fetched)
       ELSE \A i \in 1..(Len(s) - 1) :
                KeyOrd(s[i], s[i + 1], cfg.sort_criteria)
                    \in {"Equal", IF cfg.sort_order = "Ascending"
                                  THEN "Less" ELSE "Greater"}

\* C14: the tracks an accepted LOAD_DETAIL response resolves the promise
\* with are the fetched tracks in the order asked for by the preference in
\* the payload, the snapshot taken when the command was submitted; the
\* preference in force when the response arrives plays no part.
C14_SnapshotOrders ==
    [][\A d \in DetailResponses :
            (hist'[d.id].fate = "accepted" /\ hist'[d.id].fetchOk)
            => /\ detail'.val[1].ok
               /\ OrderedBy(detail'.val[1].val.tracks, FetchOrder, d.cfg)]_vars

\* C14: a LOAD_DETAIL was submitted, the preference was changed, a second
\* LOAD_DETAIL for the same playlist was submitted, and then the response
\* of the first arrived and was accepted: the tracks are in the order of
\* the first snapshot, not in the order of the preference now in force.
C14_Witness ==
    /\ Len(hist) = 2
    /\ IsLoadDetail(1) /\ IsLoadDetail(2)
    /\ hist[1].cfg # hist[2].cfg /\ hist[2].cfg = config
    /\ hist[1].fate = "accepted" /\ hist[1].fetchOk
    /\ hist[2].fate = "spent"
    /\ IsResolvedOk(detail)
    /\ OrderedBy(detail.val[1].val.tracks, FetchOrder, hist[1].cfg)
    /\ ~OrderedBy(detail.val[1].val.tracks, FetchOrder, config)

\* ------------------------------------------------------------------------
\* More properties of sort_playlist (SortSpec)
\* ------------------------------------------------------------------------
\* C15: for DateAdded, sort_playlist returns the input as it is when the
\* order is Ascending and the input reversed when it is Descending; for
\* every other criterion the result is not reversed as a whole: it is in
\* the order asked for, ascending or descending by the criterion's field,
\* with the tracks that tie in the order of the input.
C15_DateAddedReverses ==
    Sorted =>
        /\ sortOut.ok
        /\ IF sortCfg.sort_criteria = "DateAdded"
           THEN sortOut.val = IF sortCfg.sort_order = "Ascending"
                              THEN InputTracks ELSE Rev(InputTracks)
           ELSE /\ OrderedBy(sortOut.val, InputTracks, sortCfg)
                /\ KeepsTies(InputTracks, sortOut.val, sortCfg.sort_criteria)

\* C15: three different tracks have been sorted by DateAdded, Descending,
\* and the result is the input back to front.
C15_Witness ==
    /\ Sorted
    /\ DateAddedDescending
    /\ sortIn = Ok(<<Catalogue[2], Catalogue[1], Catalogue[3]>>)
    /\ sortOut = Ok(<<Catalogue[3], Catalogue[1], Catalogue[2]>>)

\* ------------------------------------------------------------------------
\* More properties of the four commands (CommandSpec)
\* ------------------------------------------------------------------------
\* C16: the response of an ADD_TRACK raises exactly one alert: the error
\* alert with the request's error when the request failed, for want of a
\* URI or at the server, and the confirmation when it succeeded; it leaves
\* the library, and so the count raised at submission, and the detail
\* promise as they are, and submits no command.  A failed ADD_TRACK after
\* which no other command touched the library still shows the raised count.
C16_AddTrackAlertsOnce ==
    /\ [][\A d \in Responses :
            d.sel = ADD_TRACK
            => /\ alerts' = Append(alerts,
                        IF hist'[d.id].resOk
                        THEN [style |-> "info", message |-> "Added to playlist."]
                        ELSE [style |-> "error", message |-> ErrorOf(d)])
               /\ playlists' = playlists
               /\ detail' = detail
               /\ NewSubmissions = {}
               /\ running' = running \ {d}]_vars
    /\ [](\A i \in DOMAIN hist :
            (/\ IsAddTrack(i) /\ hist[i].done /\ ~hist[i].resOk
             /\ hist[i].count >= 0
             /\ \A k \in DOMAIN hist : k > i => IsLoadDetail(k))
            => /\ TrackCount(playlists, hist[i].link) = hist[i].count + 1
               /\ Children(i) = {})

\* C16: an ADD_TRACK submitted while the library held the playlists has
\* failed at the server: there is one alert, the error, the count is still
\* one above what it was, and nothing is running.
C16_Witness ==
    \E i \in DOMAIN hist :
        /\ IsAddTrack(i) /\ hist[i].done /\ hist[i].called /\ ~hist[i].resOk
        /\ hist[i].count >= 0
        /\ TrackCount(playlists, hist[i].link) = hist[i].count + 1
        /\ alerts = << [style |-> "error", message |-> TransportError] >>
        /\ running = {}

\* C17: the preflights and responses of ADD_TRACK and REMOVE_TRACK and
\* both hooks of LOAD_LIST leave the detail promise as it is; the promise
\* changes only by the preflight of a LOAD_DETAIL, which defers it to the
\* link of that command, or by the response of a LOAD_DETAIL.  The
\* LOAD_DETAIL a REMOVE_TRACK response submits is such a command: in the
\* step of that response the promise changes by that preflight alone.
C17_OnlyLoadDetailMovesDetail ==
    [][/\ (detail' # detail) =>
            \/ DetailResponses # {}
            \/ \E k \in NewSubmissions :
                    /\ hist'[k].sel = LOAD_DETAIL
                    /\ detail' = [state |-> "Pending", key |-> hist'[k].link,
                                  val |-> <<>>]
       /\ \A k \in NewSubmissions :
            (hist'[k].sel # LOAD_DETAIL /\ hist'[k].parent = 0) => detail' = detail
       /\ \A d \in Responses :
            d.sel \in {LOAD_LIST, ADD_TRACK} => detail' = detail
       /\ \A d \in Responses :
            d.sel = REMOVE_TRACK =>
                \E k \in NewSubmissions :
                    /\ hist'[k].sel = LOAD_DETAIL /\ hist'[k].parent = d.id
                    /\ detail' = LoadDetailPreflight(detail, hist'[k])]_vars

\* C17: the detail promise was resolved by a LOAD_DETAIL, and an ADD_TRACK
\* or a LOAD_LIST submitted after it has completed: the promise still holds
\* the tracks.
C17_Witness ==
    \E i, j \in DOMAIN hist :
        /\ i < j
        /\ IsLoadDetail(i) /\ hist[i].fate = "accepted"
        /\ (IsAddTrack(j) \/ IsLoadList(j)) /\ hist[j].done
        /\ IsResolvedOk(detail)
        /\ detail.key = hist[i].link

\* C18: whenever the detail promise is Resolved with tracks, the id and
\* the name of the PlaylistTracks it holds are those of the link that is
\* the promise's key, whatever LOAD_DETAIL and REMOVE_TRACK commands were
\* submitted and in whatever order their responses arrived.
C18_ResolvedMatchesKey ==
    IsResolvedOk(detail)
        => /\ detail.key \in Links
           /\ detail.val[1].val.id = detail.key.id
           /\ detail.val[1].val.name = detail.key.name

\* C18: LOAD_DETAIL was submitted for one playlist and then for another;
\* the response for the first came back stale and was dropped, the one for
\* the second was accepted, and the promise holds the second playlist.
C18_Witness ==
    \E i, j \in DOMAIN hist :
        /\ i < j
        /\ IsLoadDetail(i) /\ IsLoadDetail(j)
        /\ hist[i].link # hist[j].link
        /\ hist[i].fate = "superseded"
        /\ hist[j].fate = "accepted"
        /\ IsResolvedOk(detail)
        /\ detail.key = hist[j].link
        /\ detail.val[1].val.id = hist[j].link.id

\* The detail promise is pending on the LOAD_DETAIL that a completed
\* REMOVE_TRACK submitted and whose response has not arrived.
PendingOnResubmission ==
    /\ detail.state = "Pending"
    /\ \E i \in DOMAIN hist :
        /\ IsRemoveTrack(i) /\ hist[i].done
        /\ \E k \in Children(i) : ~hist[k].done /\ hist[k].link = detail.key

\* C19: the response of a REMOVE_TRACK on a playlist P leaves the detail
\* promise Pending on P with no value, whatever it held before, be it
\* empty, Resolved, or Pending on another playlist; while the promise is
\* pending on that resubmitted LOAD_DETAIL, the response of a LOAD_DETAIL
\* for another playlist Q is dropped: the promise stays as it is.
C19_RemoveDefersDetail ==
    [][/\ \A d \in Responses :
            d.sel = REMOVE_TRACK
                => detail' = [state |-> "Pending", key |-> d.link, val |-> <<>>]
       /\ \A d \in DetailResponses :
            (PendingOnResubmission /\ d.link # detail.key)
                => /\ detail' = detail
                   /\ hist'[d.id].fate = "superseded"]_vars

\* C19: LOAD_DETAIL was submitted for Q, a REMOVE_TRACK on P completed
\* while the promise was pending on Q, and then the response for Q came
\* back and was dropped: the promise is pending on P.
C19_Witness ==
    \E q, i \in DOMAIN hist :
        /\ q < i
        /\ IsLoadDetail(q) /\ hist[q].parent = 0
        /\ IsRemoveTrack(i) /\ hist[i].done
        /\ hist[q].link # hist[i].link
        /\ hist[q].fate = "superseded"
        /\ PendingOnResubmission
        /\ detail = [state |-> "Pending", key |-> hist[i].link, val |-> <<>>]

\* ------------------------------------------------------------------------
\* The four commands when every request returns (LiveSpec)
\* ------------------------------------------------------------------------
\* Every request that was started returns and its response is run; the
\* user submits MaxCmds commands at most.
LiveSpec ==
    /\ Init
    /\ [][CommandNext]_vars
    /\ WF_vars(CompleteLoadList)
    /\ WF_vars(CompleteLoadDetail)
    /\ WF_vars(CompleteAddTrack)
    /\ WF_vars(CompleteRemoveTrack)

EverDeferred(sel) == \E i \in DOMAIN hist : hist[i].sel = sel

\* C20: when every request returns and finitely many commands are
\* submitted, from some point on the library promise is Resolved if
\* LOAD_LIST was ever submitted and the detail promise is Resolved if
\* LOAD_DETAIL was ever submitted, and they stay so: no promise that was
\* deferred stays Pending for ever.
C20_NoPromisePendingForever ==
    <>[](/\ playlists.state # "Pending"
         /\ detail.state # "Pending"
         /\ EverDeferred(LOAD_LIST) => playlists.state = "Resolved"
         /\ EverDeferred(LOAD_DETAIL) => detail.state = "Resolved")

\* C20: every command has been submitted and every response has arrived,
\* one of them, for a LOAD_DETAIL of another playlist, stale and dropped
\* while the promise was pending on the LOAD_DETAIL a REMOVE_TRACK had
\* submitted, and the detail promise is Resolved.
C20_Witness ==
    /\ cmdsLeft = 0
    /\ running = {}
    /\ detail.state = "Resolved"
    /\ \E q, i \in DOMAIN hist :
        /\ IsLoadDetail(q) /\ hist[q].fate = "superseded"
        /\ IsRemoveTrack(i)
        /\ \A k \in Children(i) : hist[k].fate = "accepted"

====
